---- MODULE Spec2Model ----
(***************************************************************************)
(* A model of the country cache service of src/main.py: the countries     *)
(* table, the summary image file, and the handlers that change them       *)
(* (POST /countries/refresh, DELETE /countries/{name}) or serve the file  *)
(* (GET /countries/image).                                                 *)
(*                                                                         *)
(* Each handler is one action: it runs from the request to the response.  *)
(* Requests are handled one at a time.  The columns capital, region and   *)
(* flag_url are copied from the upstream record to the row exactly as     *)
(* population is, and the surrogate id is never read by a handler that    *)
(* writes; they are left out of the rows.                                  *)
(***************************************************************************)
EXTENDS Integers, Sequences, FiniteSets

\* ------------------------------------------------------------- bounds
MaxBatch == 2        \* records in the upstream country list
SomePopulation == 3  \* the population the upstream records carry
SomeRate == 2        \* the nonzero rate an FX table carries
MaxTime == 1         \* clock ticks after the module was imported

\* ---------------------------------------------------- program constants
MinMultiplier == 1000
MaxMultiplier == 2000
TopLimit == 5
\* datetime.now(timezone.utc) in the column definition is evaluated once,
\* when the class body runs at import: the clock reads 0 then.
LastUpdatedDefault == 0

\* ---------------------------------------------------------- JSON values
JNull == [t |-> "null"]
JInt(n) == [t |-> "int", v |-> n]
JStr(s) == [t |-> "str", v |-> s]
JList(s) == [t |-> "list", v |-> s]
JObj(o) == [t |-> "obj", v |-> o]

\* dict.get(key, default)
Get(obj, key, default) == IF key \in DOMAIN obj THEN obj[key] ELSE default

\* Python truthiness: `not x`
Falsy(x) ==
    \/ x.t = "null"
    \/ (x.t = "int" /\ x.v = 0)
    \/ (x.t \in {"str", "list"} /\ x.v = <<>>)

\* ------------------------------------------------------------- strings
\* A string is a sequence of one-character strings.
Lower(c) == CASE c = "A" -> "a" [] c = "B" -> "b" [] OTHER -> c

LowerStr(s) == [i \in 1..Len(s) |-> Lower(s[i])]

RECURSIVE Like(_, _)
\* SQL LIKE: % matches any run of characters, _ any one character.
Like(value, pattern) ==
    IF pattern = <<>> THEN value = <<>>
    ELSE IF Head(pattern) = "%"
         THEN Like(value, Tail(pattern))
              \/ (value # <<>> /\ Like(Tail(value), pattern))
    ELSE IF value = <<>> THEN FALSE
    ELSE (Head(pattern) = "_" \/ Head(pattern) = Head(value))
         /\ Like(Tail(value), Tail(pattern))

\* Country.name.ilike(pattern)
ILike(value, pattern) == Like(LowerStr(value), LowerStr(pattern))

\* ------------------------------------------------------------- numbers
RECURSIVE GCD(_, _)
GCD(a, b) == IF b = 0 THEN a ELSE GCD(b, a % b)

\* The quotient n / d as a fraction in lowest terms (d > 0, n >= 0).
Frac(n, d) == LET g == GCD(n, d) IN [num |-> n \div g, den |-> d \div g]

Zero == Frac(0, 1)

\* --------------------------------------------------------- input domains
USD == <<"U", "S", "D">>
NO_CURRENCY_CODE == <<"N", "O", "C">>

UpstreamNames == {<<"a">>, <<"A">>, <<"b">>}
UsdCurrencies == JList(<<JObj([code |-> JStr(USD)])>>)

\* The records restcountries.com may serve: complete records under each
\* name, and under one name the records that lack something: no currencies,
\* a currencies list of bare codes instead of objects, no population field,
\* a null population, a null name.
CountryRecords ==
    {[name |-> JStr(n), population |-> JInt(SomePopulation),
      currencies |-> UsdCurrencies] : n \in UpstreamNames}
    \cup {[name |-> JStr(<<"a">>), population |-> JInt(SomePopulation)],
          [name |-> JStr(<<"a">>), population |-> JInt(SomePopulation),
           currencies |-> JList(<<JStr(USD)>>)],
          [name |-> JStr(<<"a">>), currencies |-> UsdCurrencies],
          [name |-> JStr(<<"a">>), population |-> JNull,
           currencies |-> UsdCurrencies],
          [name |-> JNull, population |-> JInt(SomePopulation),
           currencies |-> UsdCurrencies]}

CountryLists == UNION {[1..k -> CountryRecords] : k \in 0..MaxBatch}

\* rates_data["rates"]: no rate for USD, a zero rate, a nonzero rate
FxTables == UNION {[D -> {JInt(0), JInt(SomeRate)}] : D \in SUBSET {USD}}

\* randint(1000, 2000): the two ends of the range
Multipliers == {MinMultiplier, MaxMultiplier}

\* the {country_name} path parameter of DELETE
PathNames == {<<"A">>, <<"_">>, <<"%", "a">>, <<"b">>}

VARIABLES
    store,           \* the committed rows of the countries table
    image,           \* the file at IMAGE_PATH
    now,             \* the clock as the last request read it when it started
    ci_unique,       \* whether the database compares name keys case-insensitively
    countries_data,  \* the country list restcountries.com serves
    exchange_rates,  \* the FX table the last request wrote rows from, if it did
    created,         \* names of the rows the last request inserted
    updated,         \* names of the rows the last request updated
    response         \* the last response

vars == <<store, image, now, ci_unique, countries_data, exchange_rates,
          created, updated, response>>

\* ------------------------------------------------- one upstream record
\* lines 83-89: the fields read from country_data
NameOf(country_data) == Get(country_data, "name", JNull)
PopulationOf(country_data) == Get(country_data, "population", JInt(0))
CurrenciesOf(country_data) == Get(country_data, "currencies", JList(<<>>))

\* line 91: if not name or population is None
Skipped(country_data) ==
    Falsy(NameOf(country_data)) \/ PopulationOf(country_data).t = "null"

\* line 103: currencies[0].get("code") raises AttributeError unless
\* currencies[0] is an object
Raises(country_data) ==
    /\ ~Falsy(CurrenciesOf(country_data))
    /\ CurrenciesOf(country_data).v[1].t # "obj"

\* lines 100-103
CountryCurrencyCode(country_data) ==
    IF ~Falsy(CurrenciesOf(country_data))
    THEN Get(CurrenciesOf(country_data).v[1].v, "code", JNull)
    ELSE JNull

\* line 107: exchange_rates.get(country_currency_code), when the code is truthy
RateOf(country_data, rates) ==
    IF Falsy(CountryCurrencyCode(country_data)) THEN JNull
    ELSE Get(rates, CountryCurrencyCode(country_data).v, JNull)

\* line 111 runs only under `if rate`
MultipliersFor(country_data, rates) ==
    IF Falsy(RateOf(country_data, rates)) THEN {MinMultiplier} ELSE Multipliers

\* the quotient of lines 112-113 turned into a product
EstimatedGdpTimes(population, random_multiplier, final_exchange_rate) ==
    Frac(population * random_multiplier * final_exchange_rate, 1)

\* lines 112-113
EstimatedGdp(population, random_multiplier, final_exchange_rate) ==
    Frac(population * random_multiplier, final_exchange_rate)

\* lines 96-117: the column values computed for a record that is not skipped
Values(country_data, rates, random_multiplier) ==
    LET code == CountryCurrencyCode(country_data)
        rate == RateOf(country_data, rates)
        population == PopulationOf(country_data).v
    IN  [population |-> population,
         currency_code |-> IF Falsy(code) THEN NO_CURRENCY_CODE ELSE code.v,
         exchange_rate |-> IF Falsy(rate) THEN 0 ELSE rate.v,
         estimated_gdp |-> IF Falsy(rate) THEN Zero
                           ELSE EstimatedGdp(population, random_multiplier, rate.v)]

\* ------------------------------------------------------------ the session
\* lines 119-120: the rows a query on the database finds.  The session does
\* not autoflush (line 19), so objects added but not yet committed are not
\* among them.
Matching(db, pattern) == {r \in db : ILike(r.name, pattern)}

\* the upsert of lines 122-142 without its update branch
PendingForInsertOnly(db, name, values) ==
    {[kind |-> "add", name |-> name, values |-> values]}

\* lines 122-142: the change one record leaves pending in the session;
\* .first() has no ORDER BY and may return any matching row.
PendingFor(db, name, values) ==
    IF Matching(db, name) = {}
    THEN {[kind |-> "add", name |-> name, values |-> values]}
    ELSE {[kind |-> "update", name |-> r.name, values |-> values] :
            r \in Matching(db, name)}

RECURSIVE Loop(_, _, _, _, _)
\* lines 82-142: every way the loop can run from record i on, as
\* [raised, pending]: whether a record raised, and the changes pending.
Loop(db, data, rates, i, pending) ==
    IF i > Len(data) THEN {[raised |-> FALSE, pending |-> pending]}
    ELSE IF Skipped(data[i]) THEN Loop(db, data, rates, i + 1, pending)
    ELSE IF Raises(data[i]) THEN {[raised |-> TRUE, pending |-> pending]}
    ELSE UNION {Loop(db, data, rates, i + 1, Append(pending, op)) :
                  op \in UNION {PendingFor(db, NameOf(data[i]).v,
                                            Values(data[i], rates, m)) :
                                   m \in MultipliersFor(data[i], rates)}}

\* line 26: unique=True on name, under the collation of the database
SameKey(a, b, ci) == IF ci THEN LowerStr(a) = LowerStr(b) ELSE a = b

\* the names of the rows the pending changes of one kind are about
Names(pending, kind) ==
    {pending[i].name : i \in {j \in DOMAIN pending : pending[j].kind = kind}}

Adds(pending) == SelectSeq(pending, LAMBDA op : op.kind = "add")

\* line 144: the INSERTs of the flush violate the unique index
IntegrityError(db, pending, ci) ==
    LET adds == Adds(pending) IN
    \/ \E i, j \in 1..Len(adds) : i < j /\ SameKey(adds[i].name, adds[j].name, ci)
    \/ \E i \in 1..Len(adds) : \E r \in db : SameKey(adds[i].name, r.name, ci)

\* One pending change applied to the table; last_updated takes the column's
\* default on INSERT and its onupdate value on UPDATE (lines 34-35).
Apply(db, op) ==
    IF op.kind = "add"
    THEN db \cup {[name |-> op.name,
                   population |-> op.values.population,
                   currency_code |-> op.values.currency_code,
                   exchange_rate |-> op.values.exchange_rate,
                   estimated_gdp |-> op.values.estimated_gdp,
                   last_updated |-> LastUpdatedDefault]}
    ELSE {IF r.name = op.name
          THEN [name |-> r.name,
                population |-> op.values.population,
                currency_code |-> op.values.currency_code,
                exchange_rate |-> op.values.exchange_rate,
                estimated_gdp |-> op.values.estimated_gdp,
                last_updated |-> LastUpdatedDefault]
          ELSE r : r \in db}

RECURSIVE Flush(_, _)
\* line 144: db.commit() writes every pending change in one transaction
Flush(db, pending) ==
    IF pending = <<>> THEN db ELSE Flush(Apply(db, Head(pending)), Tail(pending))

\* a session whose pending changes reach the table although the request raised
RollbackFlushed(db, pending) == Flush(db, pending)

\* lines 38-43: a request that raises closes its session; the transaction is
\* rolled back and nothing pending reaches the table
Rollback(db, pending) == db

\* ------------------------------------------------------- the summary image
NoFile == [kind |-> "none"]
\* a file opened for writing whose contents were not, or only partly, written
Truncated == [kind |-> "truncated"]

Ge(a, b) == a.num * b.den >= b.num * a.den

Min(a, b) == IF a <= b THEN a ELSE b

\* lines 276-279: ORDER BY estimated_gdp DESC LIMIT 5, as the sets of rows
\* the query may return; among rows of equal GDP at the cut any may be taken
TopCountries(db) ==
    {top \in SUBSET db :
        /\ Cardinality(top) = Min(TopLimit, Cardinality(db))
        /\ \A r \in top : \A q \in db \ top :
              Ge(r.estimated_gdp, q.estimated_gdp)}

\* lines 153-155, 265-268, 282-287: the latest last_updated, or none
LastRefreshed(db) ==
    IF db = {} THEN JNull
    ELSE JInt(CHOOSE t \in {r.last_updated : r \in db} :
                \A r \in db : r.last_updated <= t)

\* lines 273-333: what the canvas shows: the total, the last refresh and the
\* names of the top countries (their order on the canvas and the GDP figure
\* drawn beside each name are left out)
Rendered(db) ==
    {[kind |-> "png",
      total_countries |-> Cardinality(db),
      last_refreshed_at |-> LastRefreshed(db),
      top_countries |-> {r.name : r \in top}] :
        top \in TopCountries(db)}

\* lines 147-150, 272-337: the ways _get_summary_image can end, as
\* [failed, file].  It returns with the canvas saved; or it raises before
\* img.save has opened IMAGE_PATH (a query, makedirs, the open itself) and
\* the file is as it was; or it raises after img.save has opened IMAGE_PATH
\* for writing, which truncates the file before the first byte is written.
RenderOutcomes(db, file) ==
    {[failed |-> FALSE, file |-> f] : f \in Rendered(db)}
    \cup {[failed |-> TRUE, file |-> file]}
    \cup {[failed |-> TRUE, file |-> Truncated]}

\* ---------------------------------------------------------------- actions
\* exchange_rates of a request that committed no batch
NoRates == [rates |-> "none"]

\* The tables the process may find at DATABASE_URL when it starts (line 49
\* creates the table only if it is missing): no rows, or a row a refresh of
\* an earlier run of the process committed.
Tables ==
    {{}, {[name |-> <<"b">>,
           population |-> SomePopulation,
           currency_code |-> USD,
           exchange_rate |-> SomeRate,
           estimated_gdp |-> EstimatedGdp(SomePopulation, MinMultiplier, SomeRate),
           last_updated |-> LastUpdatedDefault]}}

Init ==
    /\ store \in Tables
    /\ image = NoFile
    /\ now = LastUpdatedDefault
    /\ ci_unique \in BOOLEAN
    /\ countries_data \in CountryLists
    /\ exchange_rates = NoRates
    /\ created = {}
    /\ updated = {}
    /\ response = [op |-> "none"]

\* A request starts: the clock has advanced since the import and since the
\* request before (readings past MaxTime are not told apart).
Clock == now' = IF now < MaxTime THEN now + 1 ELSE now

\* lines 55-65: the country list cannot be fetched
RefreshCountriesUnavailable ==
    /\ response' = [op |-> "refresh", status |-> 503,
                    details |-> "Could not fetch data from restcountries.com"]
    /\ created' = {}
    /\ updated' = {}
    /\ exchange_rates' = NoRates
    /\ UNCHANGED <<store, image>>

\* the loop run and committed before the FX table is fetched
RefreshRatesUnavailableAfterWrite ==
    \E run \in Loop(store, countries_data, [c \in {} |-> JNull], 1, <<>>) :
        /\ ~run.raised
        /\ ~IntegrityError(store, run.pending, ci_unique)
        /\ store' = Flush(store, run.pending)
        /\ response' = [op |-> "refresh", status |-> 503,
                        details |-> "Could not fetch data from open.er-api.com"]
        /\ created' = {}
        /\ updated' = {}
        /\ exchange_rates' = NoRates
        /\ UNCHANGED image

\* lines 55-78: the country list is fetched, the FX table cannot be
RefreshRatesUnavailable ==
    /\ response' = [op |-> "refresh", status |-> 503,
                    details |-> "Could not fetch data from open.er-api.com"]
    /\ created' = {}
    /\ updated' = {}
    /\ exchange_rates' = NoRates
    /\ UNCHANGED <<store, image>>

\* lines 55-158 and 38-43: both fetches succeed and the loop runs.  When a
\* record raises, or the commit does, the session is closed without a commit
\* and the framework answers 500.  Otherwise the batch is committed, the
\* image is rendered (an exception there is printed and dropped) and the
\* totals are returned.
RefreshFetched ==
    \E rates \in FxTables :
    \E run \in Loop(store, countries_data, rates, 1, <<>>) :
        IF run.raised \/ IntegrityError(store, run.pending, ci_unique)
           THEN /\ store' = Rollback(store, run.pending)
                /\ response' = [op |-> "refresh", status |-> 500]
                /\ exchange_rates' = NoRates
                /\ created' = {}
                /\ updated' = {}
                /\ UNCHANGED image
           ELSE /\ store' = Flush(store, run.pending)
                /\ exchange_rates' = rates
                /\ created' = Names(run.pending, "add")
                /\ updated' = Names(run.pending, "update")
                /\ \E render \in RenderOutcomes(store', image) :
                      image' = render.file
                /\ response' = [op |-> "refresh", status |-> 200,
                                total_countries |-> Cardinality(store'),
                                last_refreshed_at |-> LastRefreshed(store')]

\* POST /countries/refresh
Refresh ==
    /\ Clock
    /\ UNCHANGED <<ci_unique, countries_data>>
    /\ \/ RefreshCountriesUnavailable
       \/ RefreshRatesUnavailable
       \/ RefreshFetched

\* DELETE /countries/{country_name}, lines 245-259
Delete ==
    \E country_name \in PathNames :
        /\ Clock
        /\ IF Matching(store, country_name) = {}
           THEN /\ response' = [op |-> "delete", status |-> 404]
                /\ store' = store
           ELSE /\ store' = store \ Matching(store, country_name)
                /\ response' = [op |-> "delete", status |-> 200]
        /\ created' = {}
        /\ updated' = {}
        /\ exchange_rates' = NoRates
        /\ UNCHANGED <<image, ci_unique, countries_data>>

\* GET /countries/image, lines 213-218
GetSummaryImage ==
    /\ Clock
    /\ response' = IF image = NoFile
                   THEN [op |-> "image", status |-> 404]
                   ELSE [op |-> "image", status |-> 200, file |-> image]
    /\ created' = {}
    /\ updated' = {}
    /\ exchange_rates' = NoRates
    /\ UNCHANGED <<store, image, ci_unique, countries_data>>

Next == Refresh \/ Delete \/ GetSummaryImage

Spec == Init /\ [][Next]_vars

\* ----------------------------------------------------------------- claims
\* what the formulas below read off a state
Refreshed == response.op = "refresh" /\ response.status = 200

Written == created \cup updated

NamesOf(db) == {r.name : r \in db}

\* a record that carries a name and a population, neither of them null
Complete(country_data) ==
    /\ "name" \in DOMAIN country_data
    /\ "population" \in DOMAIN country_data
    /\ ~Skipped(country_data)

\* a list in which every record carries a population field and well-formed
\* currencies
PlainList(data) ==
    \A i \in DOMAIN data : "population" \in DOMAIN data[i] /\ ~Raises(data[i])

\* the names of the records of a list that are not skipped, compared without
\* regard to case
DistinctNames(data) ==
    {LowerStr(NameOf(data[i]).v) : i \in {j \in DOMAIN data : ~Skipped(data[j])}}

\* C1: a refresh that ends with 503 names one of the two upstreams in its
\* detail and leaves every row, and the image, as they were.
C1_FetchFailureWritesNothing ==
    [][(response'.op = "refresh" /\ response'.status = 503)
        => /\ store' = store
           /\ image' = image
           /\ \/ RefreshCountriesUnavailable
                 /\ response'.details = "Could not fetch data from restcountries.com"
              \/ RefreshRatesUnavailable
                 /\ response'.details = "Could not fetch data from open.er-api.com"]_vars

\* a refresh has answered 503 for the FX upstream while the table held rows
C1_Witness ==
    /\ response.op = "refresh"
    /\ response.status = 503
    /\ response.details = "Could not fetch data from open.er-api.com"
    /\ store # {}

\* C2: a refresh that starts from an empty table with a well-formed list
\* leaves as many rows as the list has distinct names, case disregarded.
C2_RowCountIsDistinctNames ==
    [][(store = {} /\ PlainList(countries_data)
        /\ response'.op = "refresh" /\ response'.status \in {200, 500})
        => Cardinality(store') = Cardinality(DistinctNames(countries_data))]_vars

\* C3: no two rows have names that are equal when case is disregarded.
C3_NamesUniqueIgnoringCase ==
    \A r, q \in store : LowerStr(r.name) = LowerStr(q.name) => r = q

\* C4: a refresh that follows a committed refresh of the same country list
\* commits too, updates rows and inserts none: the table keeps its rows'
\* names and their number.  (It holds whatever FX table the second refresh
\* fetches, the same one included.)
C4_SecondRefreshCreatesNothing ==
    [][(Refreshed /\ response'.op = "refresh" /\ response'.status \in {200, 500})
        => /\ response'.status = 200
           /\ created' = {}
           /\ NamesOf(store') = NamesOf(store)
           /\ Cardinality(store') = Cardinality(store)]_vars

\* a committed refresh found every row it wrote already in the table
C4_Witness ==
    /\ Refreshed
    /\ created = {}
    /\ Cardinality(updated) >= 2
    /\ exchange_rates # NoRates

\* C5: a row written by a refresh carries a timestamp no earlier than the
\* moment the refresh started.
C5_TimestampNotBeforeRefresh ==
    Refreshed => \A r \in store : r.name \in Written => r.last_updated >= now

\* C6: every row a refresh writes is written for a record that carries a name
\* and a population, neither null.
C6_IncompleteRecordsWriteNothing ==
    Refreshed =>
        \A w \in Written :
            \E i \in DOMAIN countries_data :
                /\ Complete(countries_data[i])
                /\ ILike(w, NameOf(countries_data[i]).v)

\* C7: a row written by a refresh whose currency code has a nonzero entry r
\* in the FX table stores the rate r and a GDP g with
\* population * 1000 <= g * r <= population * 2000; any other row written
\* stores a zero rate and a zero GDP; no GDP has a zero denominator.
C7_RateAndGdp ==
    Refreshed =>
        \A row \in store : row.name \in Written =>
            LET r == Get(exchange_rates, row.currency_code, JNull)
                g == row.estimated_gdp
            IN  /\ g.den > 0
                /\ IF ~Falsy(r)
                   THEN /\ row.exchange_rate = r.v
                        /\ row.population * MinMultiplier * g.den <= g.num * r.v
                        /\ g.num * r.v <= row.population * MaxMultiplier * g.den
                   ELSE row.exchange_rate = 0 /\ g = Zero

\* a refresh has written a row with a nonzero rate and a nonzero GDP, and a
\* row with no rate
C7_Witness ==
    /\ Refreshed
    /\ \E row \in store :
          /\ row.name \in Written
          /\ row.exchange_rate = SomeRate
          /\ row.estimated_gdp.num > 0
    /\ \E row \in store :
          /\ row.name \in Written
          /\ row.currency_code = NO_CURRENCY_CODE

\* C8: a delete that answers 200 removes exactly one row and leaves the
\* others as they were; one that answers 404 leaves the table as it was.
C8_DeleteRemovesOneRow ==
    [][response'.op = "delete"
        => IF response'.status = 200
           THEN store' \subseteq store /\ Cardinality(store \ store') = 1
           ELSE response'.status = 404 /\ store' = store]_vars

\* C9: after a refresh that committed rows while an image file existed, the
\* file is the new rendering or, the render having failed, the file as it
\* was before the request.
C9_FailedRenderKeepsImage ==
    [][(response'.op = "refresh" /\ response'.status = 200
        /\ created' \cup updated' # {} /\ image.kind = "png")
        => image' \in Rendered(store') \cup {image}]_vars

\* C10: a refresh that ends with 500, a record or the commit having raised,
\* leaves the table as it was.
C10_FailedRefreshWritesNothing ==
    [][(response'.op = "refresh" /\ response'.status = 500)
        => store' = store /\ image' = image]_vars

\* a refresh has answered 500 on a list none of whose records raises, so at
\* the commit, while the table held rows
C10_Witness ==
    /\ response.op = "refresh"
    /\ response.status = 500
    /\ \A i \in DOMAIN countries_data : ~Raises(countries_data[i])
    /\ store # {}

====
